---- MODULE Spec2Model ----
(***************************************************************************)
(* Layer-2 announcer (internal/layer2/announcer.go): the registry of       *)
(* announced IPs with its reference counts, the ARP/NDP responder maps     *)
(* kept by the interface scan, and the gratuitous "spam" loop.             *)
(*                                                                         *)
(* Three agents share the Announce object: caller threads (SetBalancer,    *)
(* DeleteBalancer, and the read-only queries of the responders), the       *)
(* interfaceScan goroutine and the spamLoop goroutine.  Every step that    *)
(* touches arps, ndps, ips or ipRefcnt runs under the embedded RWMutex.    *)
(* A section that takes the lock, does not block inside and releases it    *)
(* is one step; SetBalancer, whose deferred doSpam can block on the        *)
(* channel after the deferred Unlock, is split at the points where the     *)
(* lock is held, released, and the send is done.                           *)
(***************************************************************************)
EXTENDS Integers, Sequences, FiniteSets, Bags, TLC

----------------------------------------------------------------------------
\* Bounds of the model.

\* Total number of SetBalancer/DeleteBalancer calls and interfaceScan cycles
\* in a behaviour of Spec, of SpecTime, of SpecConc, of SpecFair
\* and of SpecReg.
MaxOps == 3
MaxTimedOps == 2
MaxConcOps == 3
MaxFairOps == 3
MaxRegOps == 5
\* Number of interfaceScan cycles in a behaviour of SpecScan.
MaxScanOps == 1
\* Capacity of spamCh in the model (make(chan net.IP, 1024) in New).
ChanCap == 1
\* Number of times the clock moves between two ticks in a behaviour of SpecTime.
MaxAdvance == 1

\* Program constants, in milliseconds.
SpamPeriod == 1100
SpamWindow == 5000

\* The caller threads, and the one that makes the calls when they come one
\* after the other.
Threads == {1, 2}
OneThread == {1}
\* The interface indexes the host can show.
Ifs == {1, 2}
Names == {"svc-a", "svc-b"}

\* The scheduler's local ticker when stopped.
Stopped == -1
\* The RWMutex when no writer holds it.
NoThread == 0

----------------------------------------------------------------------------
\* net.IP values.  An IP is <<length of the byte slice, address>>: an IPv4
\* address has a 4-byte form and a 16-byte (IPv4-in-IPv6) form.

V4Text == "10.0.0.1"
V6Text == "2001:db8::1"
IPKeys == {V4Text, V6Text}

IP4 == <<4, V4Text>>
IP4in6 == <<16, V4Text>>
IP6 == <<16, V6Text>>

\* The IPs the control plane hands to SetBalancer.
IPs == {IP4, IP6}
\* Every IP value a responder can ask about.
AllIPs == {IP4, IP4in6, IP6}

\* ip.String(): both forms of an IPv4 address print dotted-quad.
String(ip) ==
    ip[2]

\* net.ParseIP: always yields the 16-byte form.
ParseIP(s) ==
    <<16, s>>

\* ip.To4() != nil: a 4-byte IP, or a 16-byte IP with the IPv4-in-IPv6 prefix.
To4(ip) ==
    ip[2] = V4Text

\* ip.Equal(x): the two forms of an IPv4 address are equal.
Equal(ip, x) ==
    \/ ip = x
    \/ To4(ip) /\ To4(x) /\ ip[2] = x[2]

----------------------------------------------------------------------------
VARIABLES
    ips,        \* a.ips: svcName -> sequence of IPs (a map: partial function)
    ipRefcnt,   \* a.ipRefcnt: ip.String() -> number of uses (absent key = 0)
    arps,       \* a.arps: the interface indexes that have an ARP responder
    ndps,       \* a.ndps: interface index -> the groups joined by its NDP responder
    spamCh,     \* a.spamCh: the IPs sent and not yet received
    m,          \* spamLoop's m: ip.String() -> spam stop time
    ticker,     \* spamLoop's ticker: time of its next tick, or Stopped
    now,        \* the clock, in milliseconds
    lock,       \* the RWMutex: the thread holding it for writing, or NoThread
    pc,         \* per caller thread: where it is in its call
    sched,      \* spamLoop: where it is, and the IPs its tick has yet to visit
    ev,         \* what the last step did (calls made on responders, results)
    ops,        \* number of facade calls and interfaceScan cycles started
    advances,   \* number of free clock advances
    returned,   \* <<name, key, overlapped>>: the SetBalancer(name, ip) calls
                \* that returned with no DeleteBalancer(name) called since
    burst       \* per IP key: the last dequeue by spamLoop and what followed

vars ==
    <<ips, ipRefcnt, arps, ndps, spamCh, m, ticker, now, lock, pc, sched, ev,
      ops, advances, returned, burst>>

----------------------------------------------------------------------------
\* What a step did.  Every step writes a whole record, so ev always tells of
\* the last step only.
\*   op       the handler (or part of a handler) that ran
\*   key      the ip.String() it was about, "" when none
\*   name     the service name it was about, "" when none
\*   watch    bag of <<interface, key>>: Watch calls made on NDP responders
\*   unwatch  bag of <<interface, key>>: Unwatch calls made on NDP responders
\*   grat     bag of <<protocol, interface, key>>: Gratuitous calls made
\*   passed   gratuitous() got past its refcount check
\*   at       the select case gratuitous() was called from: "recv" or "tick"
\*   enumOK   net.Interfaces() succeeded
\*   done     updateInterfaces ran to its last line
\*   keepARP, keepNDP   the keep maps as updateInterfaces left them
\*   closed   <<protocol, interface>>: the responders updateInterfaces closed
\*   cfg      what the cycle saw: interface index -> interface record
\*   sendErr  the responders whose Gratuitous call returned an error
NoEv ==
    [op |-> "init", key |-> "", name |-> "", watch |-> EmptyBag,
     unwatch |-> EmptyBag, grat |-> EmptyBag, passed |-> FALSE, at |-> "",
     enumOK |-> FALSE, done |-> FALSE, keepARP |-> {}, keepNDP |-> {},
     closed |-> {}, cfg |-> [x \in {} |-> 0], sendErr |-> {}]

NoBurst ==
    [t0 |-> -1, armed |-> FALSE, pos |-> FALSE, offs |-> {}]

\* A caller thread between two calls.  In a call: op is the facade function,
\* name and ip its arguments, defers the deferred calls not yet run, and
\* overlapped tells that a DeleteBalancer(name) call was under way at some
\* moment since this call took the lock.
Idle ==
    [op |-> "idle", name |-> "", ip |-> <<>>, defers |-> <<>>,
     overlapped |-> FALSE]

Selecting ==
    [pc |-> "select", ip |-> <<>>, todo |-> {}]

\* A Go map with no key.
EmptyMap ==
    [x \in {} |-> 0]

\* Delete that leaves the key in the map.
DeleteKept(f, k) ==
    f

\* delete(f, k) on a Go map.
Delete(f, k) ==
    [x \in DOMAIN f \ {k} |-> f[x]]

\* f[k] = v on a Go map.
Put(f, k, v) ==
    [x \in DOMAIN f \cup {k} |-> IF x = k THEN v ELSE f[x]]

Init ==
    /\ ips = EmptyMap
    /\ ipRefcnt = [k \in IPKeys |-> 0]
    /\ arps = {}
    /\ ndps = EmptyMap
    /\ spamCh = <<>>
    /\ m = EmptyMap
    /\ ticker = Stopped
    /\ now = 0
    /\ lock = NoThread
    /\ pc = [t \in Threads |-> Idle]
    /\ sched = Selecting
    /\ ev = NoEv
    /\ ops = 0
    /\ advances = 0
    /\ returned = {}
    /\ burst = [k \in IPKeys |-> NoBurst]

----------------------------------------------------------------------------
\* The NDP responder (ndp.go), as far as announcer.go uses it: the set of IP
\* keys whose solicited-node group the responder has joined.

\* newNDPResponder: a fresh responder has joined no group.
NewNDPResponder ==
    {}

\* ndpResponder.Watch(ip).
Watch(joined, ip) ==
    joined \cup {String(ip)}

\* ndpResponder.Unwatch(ip).
Unwatch(joined, ip) ==
    joined \ {String(ip)}

----------------------------------------------------------------------------
\* The registry.

\* shouldAnnounce: dropReasonNone when some name lists an IP Equal to ip.
shouldAnnounce(ip) ==
    IF \E n \in DOMAIN ips : \E k \in 1 .. Len(ips[n]) : Equal(ips[n][k], ip)
    THEN "dropReasonNone"
    ELSE "dropReasonAnnounceIP"

\* AnnounceName.
AnnounceName(name) ==
    name \in DOMAIN ips

\* SetBalancer, lines 228-234: for each stored IP the inner "continue" moves
\* to the next one and the loop ends; nothing is returned or skipped.  (The
\* loop variable ip shadows the argument and is compared with itself.)
AlreadyStored(name, ip) ==
    FALSE

\* AppendIP that drops the new IP.
AppendIPDropped(list, ip) ==
    list

\* SetBalancer, line 236: a.ips[name] = append(a.ips[name], ip).
AppendIP(list, ip) ==
    Append(list, ip)

\* OtherUsers with the comparison off by one: the first user returns too.
OtherUsersFromOne(cnt) ==
    cnt >= 1

\* SetBalancer, lines 239-243: "if a.ipRefcnt[ip.String()] > 1 { return }".
OtherUsers(cnt) ==
    cnt > 1

\* Lines 245-249 / 270-274: the calls of one loop over a.ndps.
NdpCalls(ip) ==
    SetToBag({<<i, String(ip)>> : i \in DOMAIN ndps})

\* SetBalancer between a.Lock() and the deferred a.Unlock(): the new ips,
\* ipRefcnt and ndps, and the Watch calls made.
SetBalancerLocked(name, ip) ==
    LET key == String(ip)
        old == IF name \in DOMAIN ips THEN ips[name] ELSE <<>>
        cnt == ipRefcnt[key] + 1
        same == [ips |-> ips, ipRefcnt |-> ipRefcnt, ndps |-> ndps,
                 watch |-> EmptyBag]
    IN  IF AlreadyStored(name, ip)
        THEN same
        ELSE IF OtherUsers(cnt)
        THEN [same EXCEPT !.ips = Put(ips, name, AppendIP(old, ip)),
                          !.ipRefcnt = [ipRefcnt EXCEPT ![key] = cnt]]
        ELSE [ips |-> Put(ips, name, AppendIP(old, ip)),
              ipRefcnt |-> [ipRefcnt EXCEPT ![key] = cnt],
              ndps |-> [i \in DOMAIN ndps |-> Watch(ndps[i], ip)],
              watch |-> NdpCalls(ip)]

\* StillUsed that never stops the loop.
StillUsedNever(cnt) ==
    FALSE

\* DeleteBalancer, lines 264-268: "if a.ipRefcnt[ip.String()] > 0 { return }".
StillUsed(cnt) ==
    cnt > 0

\* DeleteBalancer, lines 262-275: the loop over the name's IPs, from state
\* st = [ipRefcnt, ndps, unwatch].
RECURSIVE DeleteLoop(_, _)
DeleteLoop(list, st) ==
    IF list = <<>>
    THEN st
    ELSE LET ip == Head(list)
             key == String(ip)
             rc == [st.ipRefcnt EXCEPT ![key] = @ - 1]
         IN  IF StillUsed(rc[key])
             THEN [st EXCEPT !.ipRefcnt = rc]
             ELSE DeleteLoop(Tail(list),
                    [ipRefcnt |-> rc,
                     ndps |-> [i \in DOMAIN st.ndps |-> Unwatch(st.ndps[i], ip)],
                     unwatch |-> st.unwatch (+) NdpCalls(ip)])

\* DeleteBalancerLocked that takes a name it does not know for a registered
\* one.
DeleteBalancerLockedAny(name) ==
    LET st == [ipRefcnt |-> ipRefcnt, ndps |-> ndps, unwatch |-> EmptyBag]
        n == IF name \in DOMAIN ips \/ DOMAIN ips = {}
             THEN name
             ELSE CHOOSE x \in DOMAIN ips : TRUE
    IN  IF n \notin DOMAIN ips
        THEN [ips |-> ips] @@ st
        ELSE [ips |-> Delete(ips, n)] @@ DeleteLoop(ips[n], st)

\* DeleteBalancer between a.Lock() and the deferred a.Unlock().
DeleteBalancerLocked(name) ==
    LET st == [ipRefcnt |-> ipRefcnt, ndps |-> ndps, unwatch |-> EmptyBag]
    IN  IF name \notin DOMAIN ips
        THEN [ips |-> ips] @@ st
        ELSE [ips |-> Delete(ips, name)] @@ DeleteLoop(ips[name], st)

----------------------------------------------------------------------------
\* The interface scan.  What net.Interfaces, ifi.Addrs, /sys/class/net and
\* the responder constructors give for one interface is a record:
\*   up, broadcast   ifi.Flags & net.FlagUp, & net.FlagBroadcast
\*   master          /sys/class/net/<name>/master exists
\*   noarp           the flags file was read and has bit 0x80
\*   addrs           the kinds of the addresses Addrs() returns
\*   addrErr         Addrs() fails
\*   arpErr, ndpErr  newARPResponder / newNDPResponder fails

\* Kinds of address: IPv4, IPv4 link-local (169.254.0.0/16), IPv6 link-local
\* (fe80::/10), IPv6 global, and an address that is no *net.IPNet.
AddrKinds == {"v4", "v4ll", "v6ll", "v6global", "other"}

\* a.(*net.IPNet) succeeds.
IsIPNet(kind) ==
    kind # "other"

\* ipaddr.IP.To4() != nil.
AddrTo4(kind) ==
    kind \in {"v4", "v4ll"}

\* ipaddr.IP.IsLinkLocalUnicast(): 169.254.0.0/16 or fe80::/10.
IsLinkLocalUnicast(kind) ==
    kind \in {"v4ll", "v6ll"}

Intf(up, master, noarp, broadcast, addrs, addrErr, arpErr, ndpErr) ==
    [up |-> up, master |-> master, noarp |-> noarp, broadcast |-> broadcast,
     addrs |-> addrs, addrErr |-> addrErr, arpErr |-> arpErr, ndpErr |-> ndpErr]

\* An interface with an IPv4 and an IPv6 link-local address, all well.
DualStack ==
    Intf(TRUE, FALSE, FALSE, TRUE, {"v4", "v6ll"}, FALSE, FALSE, FALSE)

\* The interfaces a scan can see at one index.
IfInputs ==
    { Intf(TRUE, FALSE, FALSE, TRUE, {"v4"}, FALSE, FALSE, FALSE),
      Intf(TRUE, FALSE, FALSE, TRUE, {"v6ll", "v6global"}, FALSE, FALSE, FALSE),
      Intf(TRUE, FALSE, FALSE, TRUE, {"v4", "v6ll"}, FALSE, FALSE, FALSE),
      Intf(FALSE, FALSE, FALSE, TRUE, {"v4", "v6ll"}, FALSE, FALSE, FALSE),
      Intf(TRUE, FALSE, FALSE, TRUE, {"v4", "v6ll"}, TRUE, FALSE, FALSE),
      Intf(TRUE, FALSE, FALSE, TRUE, {"v4", "v6ll"}, FALSE, TRUE, FALSE),
      Intf(TRUE, FALSE, FALSE, TRUE, {"v4", "v6ll"}, FALSE, FALSE, TRUE) }

\* Every interface whose calls all succeed: any flags, any set of addresses
\* that are *net.IPNet.
AllIntfs ==
    {Intf(up, master, noarp, broadcast, addrs, FALSE, FALSE, FALSE) :
        up \in BOOLEAN, master \in BOOLEAN, noarp \in BOOLEAN,
        broadcast \in BOOLEAN, addrs \in SUBSET (AddrKinds \ {"other"})}

\* Lines 75-88: the interface is passed over (down, enslaved or NOARP).
Skipped(ifi) ==
    \/ ~ifi.up
    \/ ifi.master
    \/ ifi.noarp

\* Lines 90-97: some address sets keepARP[ifi.Index].
KeepARP(ifi) ==
    \E a \in ifi.addrs : IsIPNet(a) /\ AddrTo4(a) /\ ifi.broadcast

\* Lines 90-100: some address sets keepNDP[ifi.Index].
KeepNDP(ifi) ==
    \E a \in ifi.addrs : IsIPNet(a) /\ IsLinkLocalUnicast(a)

\* Lines 123-125 and 130-132: the responders (indexes resp) on which Close()
\* is called, those not kept.
Closed(resp, keep) ==
    resp \ keep

\* CloseARP without the delete of line 126: a closed responder stays in arps.
CloseARPKept(resp, keep) ==
    resp

\* Lines 123-129: the ARP responders left after closing those not kept.
CloseARP(resp, keep) ==
    resp \cap keep

\* Lines 130-136: the NDP responders left after closing those not kept.
CloseNDP(resp, keep) ==
    [i \in DOMAIN resp \cap keep |-> resp[i]]

\* Lines 66-121: the loop over ifs (idx: the indexes still to visit, in the
\* order net.Interfaces gave them; cfg: index -> interface record), from state
\* st = [arps, ndps, keepARP, keepNDP, done].  done is FALSE when the loop
\* returned from updateInterfaces.
RECURSIVE ScanLoop(_, _, _)
ScanLoop(idx, cfg, st) ==
    IF idx = <<>>
    THEN st
    ELSE LET i == Head(idx)
             ifi == cfg[i]
             kA == IF KeepARP(ifi) THEN st.keepARP \cup {i} ELSE st.keepARP
             kN == IF KeepNDP(ifi) THEN st.keepNDP \cup {i} ELSE st.keepNDP
             kept == [st EXCEPT !.keepARP = kA, !.keepNDP = kN]
             needARP == i \in kA /\ i \notin st.arps
             needNDP == i \in kN /\ i \notin DOMAIN st.ndps
             withARP == IF needARP
                        THEN [kept EXCEPT !.arps = @ \cup {i}]
                        ELSE kept
             withNDP == IF needNDP
                        THEN [withARP EXCEPT !.ndps = Put(@, i, NewNDPResponder)]
                        ELSE withARP
         IN  IF ifi.addrErr
             THEN [st EXCEPT !.done = FALSE]
             ELSE IF Skipped(ifi)
             THEN ScanLoop(Tail(idx), cfg, st)
             ELSE IF needARP /\ ifi.arpErr
             THEN [kept EXCEPT !.done = FALSE]
             ELSE IF needNDP /\ ifi.ndpErr
             THEN [withARP EXCEPT !.done = FALSE]
             ELSE ScanLoop(Tail(idx), cfg, withNDP)

\* The indexes of s in increasing order.
RECURSIVE InOrder(_)
InOrder(s) ==
    IF s = {}
    THEN <<>>
    ELSE LET lo == CHOOSE x \in s : \A y \in s : x <= y
         IN  <<lo>> \o InOrder(s \ {lo})

\* updateInterfaces between a.Lock() and the deferred a.Unlock(), for the
\* interfaces cfg shows (index -> interface record).
UpdateInterfacesLocked(cfg) ==
    LET st == ScanLoop(InOrder(DOMAIN cfg), cfg,
                [arps |-> arps, ndps |-> ndps, keepARP |-> {}, keepNDP |-> {},
                 done |-> TRUE])
        after == [st EXCEPT !.arps = CloseARP(st.arps, st.keepARP),
                            !.ndps = CloseNDP(st.ndps, st.keepNDP)]
    IN  IF st.done
        THEN [closed |-> {<<"arp", i>> : i \in Closed(st.arps, st.keepARP)} \cup
                         {<<"ndp", i>> : i \in Closed(DOMAIN st.ndps, st.keepNDP)}]
             @@ after
        ELSE [closed |-> {}] @@ st

----------------------------------------------------------------------------
\* The facade.

\* SetBalancerDefers with the send made before the lock is released.
SetBalancerSendsLocked ==
    <<"doSpam", "Unlock">>

\* SetBalancer's deferred calls in the order they run (last deferred first):
\* "defer a.doSpam(ip)" is line 222, "defer a.Unlock()" line 224.
SetBalancerDefers ==
    <<"Unlock", "doSpam">>

\* A DeleteBalancer(name) call of another thread is under way.
Overlapped(name) ==
    \E u \in Threads : pc[u].op = "DeleteBalancer" /\ pc[u].name = name

\* SetBalancer(name, ip), from the call to the end of the locked section.
SetBalancerLock(t, name, ip) ==
    /\ pc[t].op = "idle"
    /\ lock = NoThread
    /\ \E r \in {SetBalancerLocked(name, ip)} :
           /\ ips' = r.ips
           /\ ipRefcnt' = r.ipRefcnt
           /\ ndps' = r.ndps
           /\ ev' = [NoEv EXCEPT !.op = "SetBalancer", !.key = String(ip),
                                 !.name = name, !.watch = r.watch]
    /\ lock' = t
    /\ pc' = [pc EXCEPT ![t] = [op |-> "SetBalancer", name |-> name, ip |-> ip,
                                defers |-> SetBalancerDefers,
                                overlapped |-> Overlapped(name)]]
    /\ ops' = ops + 1
    /\ UNCHANGED <<arps, spamCh, m, ticker, now, sched, advances,
                   returned, burst>>

\* The next deferred call of SetBalancer; after the last one the call returns.
SetBalancerDefer(t) ==
    /\ pc[t].op = "SetBalancer"
    /\ LET d == Head(pc[t].defers)
           rest == Tail(pc[t].defers)
       IN  /\ \/ /\ d = "Unlock"
                 /\ lock' = NoThread
                 /\ spamCh' = spamCh
              \/ /\ d = "doSpam"
                 /\ Len(spamCh) < ChanCap
                 /\ spamCh' = Append(spamCh, pc[t].ip)
                 /\ lock' = lock
           /\ ev' = [NoEv EXCEPT !.op = d, !.key = String(pc[t].ip),
                                 !.name = pc[t].name]
           /\ pc' = [pc EXCEPT ![t] =
                        IF rest = <<>> THEN Idle ELSE [@ EXCEPT !.defers = rest]]
           /\ returned' =
                 IF rest = <<>>
                 THEN returned \cup
                        {<<pc[t].name, String(pc[t].ip), pc[t].overlapped>>}
                 ELSE returned
    /\ UNCHANGED <<ips, ipRefcnt, arps, ndps, m, ticker, now, sched, ops, advances, burst>>

\* DeleteBalancer(name) is called; the thread is at a.Lock().
DeleteBalancerCall(t, name) ==
    /\ pc[t].op = "idle"
    /\ pc' = [u \in DOMAIN pc |->
                IF u = t
                THEN [Idle EXCEPT !.op = "DeleteBalancer", !.name = name]
                ELSE IF pc[u].op = "SetBalancer" /\ pc[u].name = name
                THEN [pc[u] EXCEPT !.overlapped = TRUE]
                ELSE pc[u]]
    /\ ops' = ops + 1
    /\ returned' = {r \in returned : r[1] # name}
    /\ ev' = [NoEv EXCEPT !.op = "DeleteBalancerCall", !.name = name]
    /\ UNCHANGED <<ips, ipRefcnt, arps, ndps, spamCh, m, ticker, now, lock,
                   sched, advances, burst>>

\* DeleteBalancer(name) from a.Lock() to its return.
DeleteBalancer(t) ==
    /\ pc[t].op = "DeleteBalancer"
    /\ lock = NoThread
    /\ \E r \in {DeleteBalancerLocked(pc[t].name)} :
           /\ ips' = r.ips
           /\ ipRefcnt' = r.ipRefcnt
           /\ ndps' = r.ndps
           /\ ev' = [NoEv EXCEPT !.op = "DeleteBalancer", !.name = pc[t].name,
                                 !.unwatch = r.unwatch]
           /\ burst' = [k \in IPKeys |->
                          [burst[k] EXCEPT !.pos = @ /\ r.ipRefcnt[k] > 0]]
    /\ pc' = [pc EXCEPT ![t] = Idle]
    /\ UNCHANGED <<arps, spamCh, m, ticker, now, lock, sched, ops,
                   advances, returned>>

----------------------------------------------------------------------------
\* interfaceScan: one updateInterfaces cycle.

updateInterfaces(inputs) ==
    /\ ops' = ops + 1
    /\ \/ \* net.Interfaces() fails: lines 57-60, before the lock.
          /\ ev' = [NoEv EXCEPT !.op = "updateInterfaces"]
          /\ UNCHANGED <<arps, ndps>>
       \/ /\ lock = NoThread
          /\ \E present \in SUBSET Ifs : \E cfg \in [present -> inputs] :
                \E r \in {UpdateInterfacesLocked(cfg)} :
                    /\ arps' = r.arps
                    /\ ndps' = r.ndps
                    /\ ev' = [NoEv EXCEPT !.op = "updateInterfaces",
                                          !.enumOK = TRUE, !.done = r.done,
                                          !.keepARP = r.keepARP,
                                          !.keepNDP = r.keepNDP,
                                          !.closed = r.closed,
                                          !.cfg = cfg]
    /\ UNCHANGED <<ips, ipRefcnt, spamCh, m, ticker, now, lock, pc, sched, advances, returned, burst>>

----------------------------------------------------------------------------
\* spamLoop and gratuitous.

\* LostIP without the check of lines 185-189.
LostIPNever(cnt) ==
    FALSE

\* gratuitous, lines 185-189: "if a.ipRefcnt[ip.String()] <= 0 { return }".
LostIP(cnt) ==
    cnt <= 0

\* AbortOnSendError that leaves the loop at the first failed send.
AbortOnSendErrorYes(failed) ==
    failed

\* gratuitous, lines 193-195 and 199-201: a failed client.Gratuitous(ip) is
\* logged and the loop goes on to the next responder.
AbortOnSendError(failed) ==
    FALSE

\* gratuitous, lines 192-196 or 198-202: the loop over the responders resps of
\* one family (kind), those in fails returning an error; the calls made.
RECURSIVE GratuitousLoop(_, _, _, _)
GratuitousLoop(resps, fails, kind, key) ==
    IF resps = <<>>
    THEN EmptyBag
    ELSE LET i == Head(resps)
             call == SetToBag({<<kind, i, key>>})
         IN  IF AbortOnSendError(i \in fails)
             THEN call
             ELSE call (+) GratuitousLoop(Tail(resps), fails, kind, key)

\* The responders gratuitous(ip) sends on.
Receivers(ip) ==
    IF LostIP(ipRefcnt[String(ip)])
    THEN {}
    ELSE IF To4(ip) THEN arps ELSE DOMAIN ndps

\* gratuitous(ip) under the read lock: the Gratuitous calls it makes, when
\* the sends on the responders in fails return an error.
gratuitous(ip, fails) ==
    IF LostIP(ipRefcnt[String(ip)])
    THEN EmptyBag
    ELSE IF To4(ip)
    THEN GratuitousLoop(InOrder(arps), fails, "arp", String(ip))
    ELSE GratuitousLoop(InOrder(DOMAIN ndps), fails, "ndp", String(ip))

\* One gratuitous(ip) invocation from select case at, as a step record.
GratuitousEv(ip, at, fails) ==
    [NoEv EXCEPT !.op = "gratuitous", !.key = String(ip), !.at = at,
                 !.passed = ~LostIP(ipRefcnt[String(ip)]),
                 !.grat = gratuitous(ip, fails),
                 !.sendErr = fails]

\* The record of bursts after one gratuitous(ip) invocation.
BurstAfter(ip) ==
    IF LostIP(ipRefcnt[String(ip)])
    THEN burst
    ELSE [burst EXCEPT ![String(ip)].offs = @ \cup {now - burst[String(ip)].t0}]

\* ResetTicker without the test of line 148: every dequeue resets the ticker.
ResetTickerAlways(mm, tk, t) ==
    t + SpamPeriod

\* Line 148: "if len(m) == 0", the ticker is reset to fire SpamPeriod from now.
ResetTicker(mm, tk, t) ==
    IF DOMAIN mm = {} THEN t + SpamPeriod ELSE tk

\* StopTime with a deadline one period late.
StopTimeLate(t) ==
    t + SpamWindow + SpamPeriod

\* Line 155: time.Now().Add(5 * time.Second).
StopTime(t) ==
    t + SpamWindow

\* After that never finds a deadline passed.
AfterNever(t, until) ==
    FALSE

\* Line 163: now.After(until).
After(t, until) ==
    t > until

\* StopTicker without lines 170-172: the ticker is left running.
StopTickerNever(mm, tk) ==
    tk

\* Lines 170-172: "if len(m) == 0 { ticker.Stop() }".
StopTicker(mm, tk) ==
    IF DOMAIN mm = {} THEN Stopped ELSE tk

\* case ip := <-a.spamCh, lines 147-156, up to the call of gratuitous.
SpamRecv ==
    /\ sched.pc = "select"
    /\ spamCh # <<>>
    /\ LET ip == Head(spamCh)
           key == String(ip)
       IN  /\ ticker' = ResetTicker(m, ticker, now)
           /\ m' = Put(m, key, StopTime(now))
           /\ sched' = IF key \in DOMAIN m
                       THEN Selecting
                       ELSE [pc |-> "grat", ip |-> ip, todo |-> {}]
           /\ burst' = [burst EXCEPT ![key] =
                          [t0 |-> now, armed |-> DOMAIN m = {},
                           pos |-> ipRefcnt[key] > 0, offs |-> {}]]
           /\ ev' = [NoEv EXCEPT !.op = "spamRecv", !.key = key]
    /\ spamCh' = Tail(spamCh)
    /\ UNCHANGED <<ips, ipRefcnt, arps, ndps, now, lock, pc, ops,
                   advances, returned>>

\* Line 159: a.gratuitous(ip) for the IP just received.
SpamGratuitous ==
    /\ sched.pc = "grat"
    /\ lock = NoThread
    /\ \E fails \in SUBSET Receivers(sched.ip) :
          ev' = GratuitousEv(sched.ip, "recv", fails)
    /\ burst' = BurstAfter(sched.ip)
    /\ sched' = Selecting
    /\ UNCHANGED <<ips, ipRefcnt, arps, ndps, spamCh, m, ticker, now, lock, pc,
                   ops, advances, returned>>

\* case now := <-ticker.C, line 161: the clock reaches the ticker's time.
SpamTick ==
    /\ sched.pc = "select"
    /\ ticker # Stopped
    /\ now' = ticker
    /\ IF DOMAIN m = {}
       THEN /\ ticker' = StopTicker(m, ticker + SpamPeriod)
            /\ sched' = Selecting
       ELSE /\ ticker' = ticker + SpamPeriod
            /\ sched' = [pc |-> "tick", ip |-> <<>>, todo |-> DOMAIN m]
    /\ ev' = [NoEv EXCEPT !.op = "tick"]
    /\ UNCHANGED <<ips, ipRefcnt, arps, ndps, spamCh, m, lock, pc, ops,
                   advances, returned, burst>>

\* Lines 162-172: one round of the loop over m, for entry key; after the last
\* entry the ticker is stopped if m is empty.
SpamTickEntry(key) ==
    /\ sched.pc = "tick"
    /\ key \in sched.todo
    /\ \/ /\ After(now, m[key])
          /\ m' = Delete(m, key)
          /\ ev' = [NoEv EXCEPT !.op = "expire", !.key = key]
          /\ burst' = burst
       \/ /\ ~After(now, m[key])
          /\ lock = NoThread
          /\ m' = m
          /\ \E fails \in SUBSET Receivers(ParseIP(key)) :
                ev' = GratuitousEv(ParseIP(key), "tick", fails)
          /\ burst' = BurstAfter(ParseIP(key))
    /\ LET rest == sched.todo \ {key}
       IN  IF rest = {}
           THEN /\ sched' = Selecting
                /\ ticker' = StopTicker(m', ticker)
           ELSE /\ sched' = [sched EXCEPT !.todo = rest]
                /\ ticker' = ticker
    /\ UNCHANGED <<ips, ipRefcnt, arps, ndps, spamCh, now, lock, pc, ops, advances, returned>>

\* How far the clock may move between two steps of the program.
Delays == {400}

\* Time passes while spamLoop waits in its select; a tick is taken when due.
Advance(d) ==
    /\ advances < MaxAdvance
    /\ sched.pc = "select"
    /\ ticker = Stopped \/ now < ticker
    /\ now' = IF ticker # Stopped /\ now + d > ticker THEN ticker ELSE now + d
    /\ advances' = advances + 1
    /\ ev' = [NoEv EXCEPT !.op = "advance"]
    /\ UNCHANGED <<ips, ipRefcnt, arps, ndps, spamCh, m, ticker, lock, pc, sched,
                   ops, returned, burst>>

----------------------------------------------------------------------------
\* The calls of the threads in T.  The threads are alike, so a new call is
\* given to the first thread that is free.
FirstFree(T, t) ==
    \A u \in T : u < t => pc[u].op # "idle"

Facade(T) ==
    \/ \E t \in T, name \in Names, ip \in IPs :
          FirstFree(T, t) /\ SetBalancerLock(t, name, ip)
    \/ \E t \in T, name \in Names :
          FirstFree(T, t) /\ DeleteBalancerCall(t, name)

Returns(T) ==
    \/ \E t \in T : SetBalancerDefer(t)
    \/ \E t \in T : DeleteBalancer(t)

\* Registry and responder maps: one caller, the interface scan over every
\* kind of interface, and spamLoop within the first SpamPeriod of a burst.
Next ==
    \/ ops < MaxOps /\ Facade(OneThread)
    \/ ops < MaxOps /\ updateInterfaces(IfInputs)
    \/ Returns(OneThread)
    \/ SpamRecv
    \/ SpamGratuitous

Spec ==
    Init /\ [][Next]_vars

\* The spam loop against the clock: one caller, spamLoop and the passing of
\* time.
NextTime ==
    \/ ops < MaxTimedOps /\ Facade(OneThread)
    \/ Returns(OneThread)
    \/ SpamRecv
    \/ SpamGratuitous
    \/ SpamTick
    \/ \E key \in IPKeys : SpamTickEntry(key)
    \/ \E d \in Delays : Advance(d)

SpecTime ==
    Init /\ [][NextTime]_vars

\* Every goroutine that can run does, and a running ticker fires: a step of
\* the caller or of spamLoop that stays possible is taken in the end.
\* Nothing is assumed about new calls.
FairnessTime ==
    /\ \A t \in OneThread : WF_vars(SetBalancerDefer(t))
    /\ \A t \in OneThread : WF_vars(DeleteBalancer(t))
    /\ WF_vars(SpamRecv)
    /\ WF_vars(SpamGratuitous)
    /\ WF_vars(SpamTick)
    /\ \A key \in IPKeys : WF_vars(SpamTickEntry(key))

SpecTimeFair ==
    SpecTime /\ FairnessTime

\* Every interleaving of the callers, spamLoop and the interface scan.
NextConc ==
    \/ ops < MaxConcOps /\ Facade(Threads)
    \/ ops < MaxConcOps /\ updateInterfaces({DualStack})
    \/ Returns(Threads)
    \/ SpamRecv
    \/ SpamGratuitous
    \/ SpamTick
    \/ \E key \in IPKeys : SpamTickEntry(key)

SpecConc ==
    Init /\ [][NextConc]_vars

\* The Go runtime runs every goroutine that can run: a step that stays
\* possible is taken in the end.  That holds of a deferred call, of a send on
\* spamCh once there is room, of spamLoop's receive, and of gratuitous once
\* the lock is free.  Nothing is assumed about new calls or about the ticker.
Fairness ==
    /\ \A t \in Threads : WF_vars(SetBalancerDefer(t))
    /\ WF_vars(SpamRecv)
    /\ WF_vars(SpamGratuitous)
    /\ \A key \in IPKeys : WF_vars(SpamTickEntry(key))

\* The registry over longer runs: one caller, the scan of a dual-stack
\* interface, and spamLoop receiving what the caller sends.
NextReg ==
    \/ ops < MaxRegOps /\ Facade(OneThread)
    \/ ops < MaxRegOps /\ updateInterfaces({DualStack})
    \/ Returns(OneThread)
    \/ SpamRecv
    \/ SpamGratuitous

SpecReg ==
    Init /\ [][NextReg]_vars

\* The interface scan alone, over every interface of AllIntfs.
NextScan ==
    ops < MaxScanOps /\ updateInterfaces(AllIntfs)

SpecScan ==
    Init /\ [][NextScan]_vars

\* The callers and spamLoop, without the interface scan.
NextFair ==
    \/ ops < MaxFairOps /\ Facade(Threads)
    \/ Returns(Threads)
    \/ SpamRecv
    \/ SpamGratuitous
    \/ SpamTick
    \/ \E key \in IPKeys : SpamTickEntry(key)

SpecFair ==
    Init /\ [][NextFair]_vars /\ Fairness

----------------------------------------------------------------------------
\* Properties.

\* No facade call is under way.
Quiescent ==
    \A t \in Threads : pc[t].op = "idle"

\* Number of places of list that hold an IP printing as key.
CountIn(list, key) ==
    Cardinality({i \in 1 .. Len(list) : String(list[i]) = key})

\* Number of occurrences of key in the lists of the names in S.
RECURSIVE Occurrences(_, _)
Occurrences(S, key) ==
    IF S = {}
    THEN 0
    ELSE LET n == CHOOSE x \in S : TRUE
         IN  CountIn(ips[n], key) + Occurrences(S \ {n}, key)

\* C1: when no call is under way, the reference count of every IP is the
\* number of times the IP occurs in the lists of the registered names.
C1_RefcntCountsOccurrences ==
    Quiescent =>
        \A key \in IPKeys : ipRefcnt[key] = Occurrences(DOMAIN ips, key)

\* C2: shouldAnnounce(x) is dropReasonNone exactly when ipRefcnt[x] > 0, and
\* dropReasonAnnounceIP otherwise.
C2_AnnouncedIffReferenced ==
    \A ip \in AllIPs :
        /\ shouldAnnounce(ip) = "dropReasonNone" <=> ipRefcnt[String(ip)] > 0
        /\ shouldAnnounce(ip) = "dropReasonAnnounceIP" <=> ipRefcnt[String(ip)] <= 0

\* The step is the locked section of SetBalancer(name, ip) and ip was
\* already stored under name before it.
RepeatedSet(name, ip) ==
    /\ ev'.op = "SetBalancer"
    /\ ev'.name = name
    /\ ev'.key = String(ip)
    /\ name \in DOMAIN ips
    /\ \E i \in 1 .. Len(ips[name]) : Equal(ips[name][i], ip)

\* C8: SetBalancer(name, ip) with ip already stored under name leaves the
\* list of name and the reference count of ip as they were.
C8_RepeatedSetIsNoOp ==
    [][\A name \in Names, ip \in IPs :
          RepeatedSet(name, ip) =>
              /\ ips'[name] = ips[name]
              /\ ipRefcnt'[String(ip)] = ipRefcnt[String(ip)]]_vars

\* The Gratuitous calls of the step were made for key.
Emitted(key) ==
    \E c \in BagToSet(ev'.grat) : c[3] = key

\* C3: no responder's Gratuitous(ip) is called while ipRefcnt[ip] is zero; a
\* tick that finds the IP released makes no call for it.
C3_NoGratuitousAtZero ==
    [][\A key \in IPKeys : Emitted(key) => ipRefcnt[key] > 0 /\ ipRefcnt'[key] > 0]_vars

\* C3 happens: a tick calls gratuitous for an IP whose deadline has not
\* passed and whose reference count is zero, with a responder of its family
\* present.
C3_Witness ==
    /\ ev.op = "gratuitous"
    /\ ev.at = "tick"
    /\ ev.key = V4Text
    /\ ipRefcnt[V4Text] = 0
    /\ arps # {}
    /\ V4Text \in DOMAIN m
    /\ ~After(now, m[V4Text])

\* The Watch calls of one loop over the NDP responders present, for key.
WatchedOnAll(key) ==
    SetToBag({<<i, key>> : i \in DOMAIN ndps})

\* The Unwatch calls of the step that were made for key.
UnwatchedFor(key) ==
    {c \in BagToSet(ev'.unwatch) : c[2] = key}

\* C4: a step that takes ipRefcnt[ip] from 0 to 1 calls Watch(ip) once on
\* every NDP responder present and emits nothing, and Gratuitous(ip) is only
\* called while the count is positive (so after that step); a step that takes
\* the count from k >= 1 to k+1 calls no Watch.  A step that takes the count
\* from 1 to 0 calls Unwatch(ip) once on every NDP responder present; a step
\* that leaves the count positive calls no Unwatch(ip).
C4_WatchOnFirstUnwatchOnLast ==
    [][\A key \in IPKeys :
          /\ ipRefcnt[key] = 0 /\ ipRefcnt'[key] = 1 =>
                ev'.watch = WatchedOnAll(key) /\ ev'.grat = EmptyBag
          /\ Emitted(key) => ipRefcnt[key] > 0
          /\ ipRefcnt[key] >= 1 /\ ipRefcnt'[key] = ipRefcnt[key] + 1 =>
                ev'.watch = EmptyBag
          /\ ipRefcnt[key] = 1 /\ ipRefcnt'[key] = 0 =>
                /\ UnwatchedFor(key) = {<<i, key>> : i \in DOMAIN ndps}
                /\ \A c \in UnwatchedFor(key) : CopiesIn(c, ev'.unwatch) = 1
          /\ ipRefcnt'[key] > 0 => UnwatchedFor(key) = {}]_vars

\* C4 happens: DeleteBalancer released the last use of an IP with NDP
\* responders present and called Unwatch on them.
C4_Witness ==
    /\ ev.op = "DeleteBalancer"
    /\ BagCardinality(ev.unwatch) = Cardinality(DOMAIN ndps)
    /\ Cardinality(DOMAIN ndps) = 2
    /\ \E key \in IPKeys : ipRefcnt[key] = 0 /\ <<1, key>> \in BagToSet(ev.unwatch)

\* C9: at the end of an updateInterfaces cycle every NDP responder in the map
\* has had Watch called for every IP whose reference count is positive.
C9_RespondersWatchAnnounced ==
    ev.op = "updateInterfaces" =>
        \A i \in DOMAIN ndps : \A key \in IPKeys :
            ipRefcnt[key] > 0 => key \in ndps[i]

\* C10: at the end of a cycle whose net.Interfaces() succeeded the responder
\* maps hold exactly the interfaces computed eligible in that cycle.
C10_RespondersMatchEligible ==
    ev.op = "updateInterfaces" /\ ev.enumOK =>
        arps = ev.keepARP /\ DOMAIN ndps = ev.keepNDP

\* The times, counted from the dequeue, at which a burst is to emit:
\* k * 1100 ms for k = 0, 1, ... while k * 1100 ms <= 5 s.
ExpectedOffsets ==
    {k * SpamPeriod : k \in 0 .. (SpamWindow \div SpamPeriod)}

\* The burst of key, begun at its last dequeue, has so far emitted at the
\* expected times only, and at every expected time that has gone by.
OnSchedule(key) ==
    /\ burst[key].offs \subseteq ExpectedOffsets
    /\ {o \in ExpectedOffsets : o < now - burst[key].t0} \subseteq burst[key].offs

\* C5 as claimed: an IP dequeued at t0 whose count stays positive is announced
\* at t0 and at t0 + k * 1100 ms up to t0 + 5 s and at no other time, whether
\* or not other IPs are in the scheduler map (up to its next dequeue).
C5_BurstOnSchedule ==
    \A key \in IPKeys :
        burst[key].t0 >= 0 /\ burst[key].pos => OnSchedule(key)

\* C5, amended: the same, for an IP dequeued while the scheduler map is empty,
\* which is when line 148 resets the ticker to fire 1100 ms after t0.
C5_BurstOnScheduleWhenArmed ==
    \A key \in IPKeys :
        burst[key].t0 >= 0 /\ burst[key].pos /\ burst[key].armed =>
            OnSchedule(key)

\* C5 happens: a burst begun with the map empty has emitted at all the
\* expected times and its entry has been deleted after the deadline.
C5_Witness ==
    \E key \in IPKeys :
        /\ burst[key].t0 >= 0
        /\ burst[key].pos
        /\ burst[key].armed
        /\ burst[key].offs = ExpectedOffsets
        /\ key \notin DOMAIN m
        /\ now > burst[key].t0 + SpamWindow

\* What the responders' queries answer for a returned SetBalancer(name, ip),
\* the IP asked about in either of its forms.
Announced(name, key) ==
    /\ AnnounceName(name)
    /\ \A ip \in AllIPs : String(ip) = key => shouldAnnounce(ip) = "dropReasonNone"

\* C7 as claimed: after SetBalancer(n, ip) has returned, and until a
\* DeleteBalancer(n) is called, shouldAnnounce(ip) returns dropReasonNone and
\* AnnounceName(n) returns true.
C7_AnnouncedOnceSet ==
    \A r \in returned : Announced(r[1], r[2])

\* C7, amended: the same for a SetBalancer(n, ip) during which no
\* DeleteBalancer(n) call was under way: none was waiting for the lock when
\* SetBalancer took it and none was called before SetBalancer returned.
C7_AnnouncedOnceSetAlone ==
    \A r \in returned : r[3] = FALSE => Announced(r[1], r[2])

\* C7 happens: SetBalancer(n, ip) has returned with no DeleteBalancer(n)
\* around it, and a DeleteBalancer of another name has since run.
C7_Witness ==
    \E r \in returned :
        /\ r[3] = FALSE
        /\ ev.op = "DeleteBalancer"
        /\ ev.name # r[1]
        /\ ipRefcnt[r[2]] = 1

\* Thread t is about to send on spamCh.
Sending(t) ==
    pc[t].op = "SetBalancer" /\ Head(pc[t].defers) = "doSpam"

\* spamLoop is inside gratuitous, or about to call it, and needs the lock.
SchedulerNeedsLock ==
    \/ sched.pc = "grat"
    \/ sched.pc = "tick" /\ \E key \in sched.todo : ~After(now, m[key])

\* The cyclic wait: the lock holder waits for room in spamCh while spamLoop,
\* which alone makes room, waits for the lock.
CyclicWait ==
    \E t \in Threads :
        /\ lock = t
        /\ Sending(t)
        /\ Len(spamCh) >= ChanCap
        /\ SchedulerNeedsLock

\* C6: no thread sends on spamCh while it holds the registry lock; the state
\* where spamLoop waits for the lock and the lock holder waits for room in
\* the channel is never reached; and under fair scheduling every SetBalancer
\* call that has taken the lock returns (the lock is free again after
\* finitely many steps of its holder, so a call waiting in a.Lock() gets it).
C6_NoSendUnderLock ==
    /\ [][\A t \in Threads :
            Len(spamCh') > Len(spamCh) /\ pc'[t] # pc[t] => lock # t]_vars
    /\ [](\A t \in Threads : Sending(t) => lock # t)
    /\ []~CyclicWait
    /\ \A t \in Threads : (pc[t].op = "SetBalancer") ~> (pc[t].op = "idle")

\* C6 happens: spamLoop waits for the lock inside gratuitous, spamCh is full,
\* and the thread that holds the lock still has its send to make.
C6_Witness ==
    /\ sched.pc = "grat"
    /\ Len(spamCh) = ChanCap
    /\ \E t \in Threads : lock = t /\ pc[t].op = "SetBalancer"

\* Number of the first i places of list that hold an IP printing as key.
Prior(list, i, key) ==
    Cardinality({j \in 1 .. i : String(list[j]) = key})

\* The count of the IP at place i once the places 1 .. i are decremented.
Residual(list, i) ==
    ipRefcnt[String(list[i])] - Prior(list, i, String(list[i]))

\* The places at which the walk over list stops: their IP is still in use.
Stops(list) ==
    {i \in 1 .. Len(list) : Residual(list, i) > 0}

\* The last place the walk decrements.
LastWalked(list) ==
    IF Stops(list) = {}
    THEN Len(list)
    ELSE CHOOSE i \in Stops(list) : \A j \in Stops(list) : i <= j

\* The places before the one where the walk stops.
Released(list) ==
    {i \in 1 .. LastWalked(list) : i \notin Stops(list)}

\* C11: DeleteBalancer(name) for a registered name removes the name, walks
\* its IPs in insertion order decrementing each count and stops at the first
\* IP whose count is still positive; the counts of the later IPs are
\* unchanged, and Unwatch is called, on every NDP responder, for the IPs
\* before that point only, each of which reached 0.
C11_DeleteStopsAtFirstUsed ==
    [][\A name \in DOMAIN ips :
          ev'.op = "DeleteBalancer" /\ ev'.name = name =>
              /\ name \notin DOMAIN ips'
              /\ \A n \in DOMAIN ips \ {name} :
                    n \in DOMAIN ips' /\ ips'[n] = ips[n]
              /\ \A key \in IPKeys :
                    ipRefcnt'[key] =
                        ipRefcnt[key] - Prior(ips[name], LastWalked(ips[name]), key)
              /\ \A i \in Released(ips[name]) : Residual(ips[name], i) = 0
              /\ \A j \in DOMAIN ndps : \A key \in IPKeys :
                    CopiesIn(<<j, key>>, ev'.unwatch) =
                        Cardinality({i \in Released(ips[name]) :
                                        String(ips[name][i]) = key})
              /\ BagToSet(ev'.unwatch) \subseteq (DOMAIN ndps) \X IPKeys]_vars

\* C11 happens: a DeleteBalancer released one IP of the name, calling
\* Unwatch, and stopped at the next, which keeps a count although the later
\* place that held it is gone with the name.
C11_Witness ==
    /\ ev.op = "DeleteBalancer"
    /\ ev.unwatch # EmptyBag
    /\ DOMAIN ips = {}
    /\ \E key \in IPKeys : ipRefcnt[key] = 1
    /\ \E key \in IPKeys : ipRefcnt[key] = 0 /\ <<1, key>> \in BagToSet(ev.unwatch)

\* Interface i of the cycle just run was seen, not passed over, and computed
\* eligible for ARP, for NDP.
EligibleARP(i) ==
    i \in DOMAIN ev'.cfg /\ ~Skipped(ev'.cfg[i]) /\ KeepARP(ev'.cfg[i])

EligibleNDP(i) ==
    i \in DOMAIN ev'.cfg /\ ~Skipped(ev'.cfg[i]) /\ KeepNDP(ev'.cfg[i])

\* Opening the ARP, the NDP socket of interface i fails in the cycle.
OpenFailsARP(i) ==
    EligibleARP(i) /\ i \notin arps /\ ev'.cfg[i].arpErr

OpenFailsNDP(i) ==
    EligibleNDP(i) /\ i \notin DOMAIN ndps /\ ev'.cfg[i].ndpErr

\* A cycle in which net.Interfaces() and every Addrs() call succeeded.
CycleWithAddrs ==
    /\ ev'.op = "updateInterfaces"
    /\ ev'.enumOK
    /\ \A i \in DOMAIN ev'.cfg : ~ev'.cfg[i].addrErr

\* C12: in a cycle in which the socket of an eligible interface cannot be
\* opened, that interface gets no responder, while every interface whose
\* sockets can be opened has, at the end of the cycle, a responder exactly
\* when it is eligible: among them the interface whose open failed in an
\* earlier cycle and succeeds now.
C12_OpenFailureIsLocal ==
    [][CycleWithAddrs =>
          \A i \in Ifs :
              /\ OpenFailsARP(i) => i \notin arps'
              /\ OpenFailsNDP(i) => i \notin DOMAIN ndps'
              /\ ~OpenFailsARP(i) /\ ~OpenFailsNDP(i) =>
                    /\ i \in arps' <=> EligibleARP(i)
                    /\ i \in DOMAIN ndps' <=> EligibleNDP(i)]_vars

\* C13: when spamLoop dequeues x, it sets m[x] to now + 5 s; it resets the
\* ticker to fire 1100 ms later only if m was empty before; if x was not in m
\* it calls gratuitous(x) once before it selects again, and if x was in m it
\* calls no gratuitous.
C13_DequeueStep ==
    [][
        /\ ev'.op = "spamRecv" =>
             /\ spamCh # <<>>
             /\ ev'.key = String(Head(spamCh))
             /\ DOMAIN m' = DOMAIN m \cup {ev'.key}
             /\ m'[ev'.key] = now + SpamWindow
             /\ \A key \in DOMAIN m \ {ev'.key} : m'[key] = m[key]
             /\ ticker' = IF DOMAIN m = {} THEN now + SpamPeriod ELSE ticker
             /\ IF ev'.key \in DOMAIN m
                THEN sched'.pc = "select"
                ELSE sched'.pc = "grat" /\ sched'.ip = Head(spamCh)
        /\ sched.pc = "grat" /\ sched' # sched =>
             /\ ev'.op = "gratuitous"
             /\ ev'.at = "recv"
             /\ ev'.key = String(sched.ip)
             /\ sched'.pc = "select"
        /\ ev'.op = "gratuitous" /\ ev'.at = "recv" => sched.pc = "grat"]_vars

\* C13 happens: an IP already in the map is dequeued again later; its
\* deadline is moved, the ticker is left as it was and no gratuitous follows.
C13_Witness ==
    /\ ev.op = "spamRecv"
    /\ sched.pc = "select"
    /\ now > 0
    /\ m[ev.key] = now + SpamWindow
    /\ ticker # Stopped
    /\ ticker # now + SpamPeriod

\* C14: whenever spamLoop is back at its select, the ticker runs if and only
\* if the map is not empty, and a running ticker fires within 1100 ms.
C14_TickerRunsIffEntries ==
    sched.pc = "select" =>
        /\ ticker # Stopped <=> DOMAIN m # {}
        /\ ticker # Stopped => ticker - now \in 0 .. SpamPeriod

\* C14 happens: a tick removed the last entry and stopped the ticker.
C14_Witness ==
    /\ ev.op = "expire"
    /\ sched.pc = "select"
    /\ DOMAIN m = {}
    /\ ticker = Stopped

\* One round of the loop over m on a tick: the entry it handles.
TickRound(key) ==
    /\ key \in sched.todo
    /\ key \in DOMAIN m
    /\ IF sched.todo = {key}
       THEN sched'.pc = "select"
       ELSE sched'.pc = "tick" /\ sched'.todo = sched.todo \ {key}
    /\ IF m[key] < now
       THEN /\ m' = [k \in DOMAIN m \ {key} |-> m[k]]
            /\ ev'.op = "expire"
            /\ ev'.key = key
            /\ ev'.grat = EmptyBag
       ELSE /\ m' = m
            /\ ev'.op = "gratuitous"
            /\ ev'.at = "tick"
            /\ ev'.key = key

\* C15: a tick at time now goes once over every entry of m: an entry whose
\* deadline is before now is removed and nothing is emitted for it, every
\* other entry gets one gratuitous invocation, so that no entry outlives the
\* first tick after its deadline; and once no IP is enqueued any more, m
\* becomes empty and the ticker stops and stays stopped.
C15_TickExpiresOrAnnounces ==
    /\ [][/\ sched.pc = "select" /\ sched'.pc = "tick" => sched'.todo = DOMAIN m
          /\ sched.pc = "tick" /\ sched' # sched => \E key \in IPKeys : TickRound(key)
          /\ sched.pc = "tick" /\ sched'.pc = "select" =>
                \A key \in DOMAIN m' : m'[key] >= now
          /\ ev'.op = "expire" \/ (ev'.op = "gratuitous" /\ ev'.at = "tick") =>
                sched.pc = "tick"]_vars
    /\ <>[](DOMAIN m = {} /\ ticker = Stopped)

\* C15 happens: on one tick one entry was removed, its deadline passed, while
\* another entry, dequeued later, is still in m and was announced.
C15_Witness ==
    /\ sched.pc = "select"
    /\ ev.op \in {"expire", "gratuitous"}
    /\ ev.at \in {"", "tick"}
    /\ V4Text \notin DOMAIN m
    /\ burst[V4Text].t0 >= 0
    /\ V6Text \in DOMAIN m
    /\ m[V6Text] >= now
    /\ burst[V6Text].offs # {}
    /\ now > burst[V4Text].t0 + SpamWindow

\* C16: a gratuitous(ip) that finds the count of ip positive calls
\* Gratuitous(ip) once on every responder of the family of ip in the map at
\* that moment and on no other: an IPv4 address goes to the ARP responders,
\* an IPv6 address to the NDP responders, whichever sends fail.
C16_GratuitousReachesFamily ==
    [][ev'.op = "gratuitous" /\ ipRefcnt[ev'.key] > 0 =>
          ev'.grat = IF ev'.key = V4Text
                     THEN SetToBag({<<"arp", i, V4Text>> : i \in arps})
                     ELSE SetToBag({<<"ndp", i, V6Text>> : i \in DOMAIN ndps})]_vars

\* C16 happens: on a tick an IPv4 address was announced on two ARP
\* responders, the send on the first failing, with NDP responders present.
C16_Witness ==
    /\ ev.op = "gratuitous"
    /\ ev.at = "tick"
    /\ ev.key = V4Text
    /\ ev.sendErr = {1}
    /\ arps = {1, 2}
    /\ DOMAIN ndps # {}
    /\ BagCardinality(ev.grat) = 2

\* The responders the calls of the step were made on.
CalledARP ==
    {c[2] : c \in {d \in BagToSet(ev'.grat) : d[1] = "arp"}}

CalledNDP ==
    {c[2] : c \in {d \in BagToSet(ev'.grat) : d[1] = "ndp"}}
        \cup {c[1] : c \in BagToSet(ev'.watch) \cup BagToSet(ev'.unwatch)}

\* C17: every Gratuitous, Watch and Unwatch call is made on a responder that
\* is in its map, and the responders in the maps are never closed ones: a
\* step that closes a responder removes it from its map, a responder leaves
\* its map only closed, and every step that calls on the responders or
\* changes the maps runs when no other thread holds the lock.
C17_NoCallOnClosedResponder ==
    [][/\ CalledARP \subseteq arps
       /\ CalledNDP \subseteq DOMAIN ndps
       /\ arps \ arps' = {i \in Ifs : <<"arp", i>> \in ev'.closed}
       /\ DOMAIN ndps \ DOMAIN ndps' = {i \in Ifs : <<"ndp", i>> \in ev'.closed}
       /\ (\/ CalledARP \cup CalledNDP # {}
           \/ ev'.closed # {}
           \/ arps' # arps
           \/ ndps' # ndps) => lock = NoThread]_vars

\* C17 happens: a cycle closed a responder while spamLoop was in the middle
\* of a tick with an announced IP still to handle.
C17_Witness ==
    /\ ev.op = "updateInterfaces"
    /\ ev.closed # {}
    /\ sched.pc = "tick"
    /\ \E key \in sched.todo : ipRefcnt[key] > 0 /\ ~After(now, m[key])

\* C18: DeleteBalancer sends nothing on spamCh and leaves the map of
\* deadlines and the ticker as they are; for a name that is not registered it
\* changes neither the names, the counts nor the responder maps, and calls no
\* Unwatch.
C18_DeleteLeavesScheduler ==
    [][ev'.op \in {"DeleteBalancerCall", "DeleteBalancer"} =>
          /\ spamCh' = spamCh
          /\ m' = m
          /\ ticker' = ticker
          /\ sched' = sched
          /\ ev'.grat = EmptyBag
          /\ ev'.op = "DeleteBalancerCall" \/ ev'.name \notin DOMAIN ips =>
                /\ ips' = ips
                /\ ipRefcnt' = ipRefcnt
                /\ arps' = arps
                /\ ndps' = ndps
                /\ ev'.unwatch = EmptyBag]_vars

\* C18 happens: after one cycle and one SetBalancer, the third operation, a
\* DeleteBalancer of the name that was never registered, has run while the
\* other name holds an IP that spamLoop is announcing.
C18_Witness ==
    /\ ev.op = "DeleteBalancer"
    /\ ops = 3
    /\ ev.name \notin DOMAIN ips
    /\ DOMAIN ips # {}
    /\ DOMAIN ndps # {}
    /\ \E key \in DOMAIN m : ipRefcnt[key] > 0
    /\ ev.unwatch = EmptyBag

\* The interface has an IPv4 address, an IPv6 link-local address.
HasIPv4(ifi) ==
    ifi.addrs \cap {"v4", "v4ll"} # {}

HasIPv6LinkLocal(ifi) ==
    "v6ll" \in ifi.addrs

\* C19: a cycle marks an interface that is up, has no master and no NOARP
\* flag ARP-eligible iff it has an IPv4 address and the broadcast flag, and
\* NDP-eligible iff it has an IPv6 link-local address; an interface that is
\* down, enslaved or NOARP is marked for neither.
C19_EligibilityTable ==
    ev.op = "updateInterfaces" /\ ev.done =>
        \A i \in DOMAIN ev.cfg :
            IF ev.cfg[i].up /\ ~ev.cfg[i].master /\ ~ev.cfg[i].noarp
            THEN /\ i \in ev.keepARP <=>
                      HasIPv4(ev.cfg[i]) /\ ev.cfg[i].broadcast
                 /\ i \in ev.keepNDP <=> HasIPv6LinkLocal(ev.cfg[i])
            ELSE i \notin ev.keepARP /\ i \notin ev.keepNDP

\* C20: no reference count is ever negative, whatever SetBalancer and
\* DeleteBalancer calls are made: the same pair set again, names deleted that
\* were never registered, a name deleted twice.
C20_RefcntNeverNegative ==
    \A key \in IPKeys : ipRefcnt[key] >= 0

\* C20 happens: a name was set twice with one IP and deleted, which leaves
\* the count at 1, and a further DeleteBalancer has run with no name left.
C20_Witness ==
    /\ ev.op = "DeleteBalancer"
    /\ DOMAIN ips = {}
    /\ ops >= 4
    /\ \E key \in IPKeys : ipRefcnt[key] = 1

====
